---- MODULE Spec2Model ----
(***************************************************************************)
(* Model of github_jira_sync_app/main.py: the webhook handler `bot` that   *)
(* reconciles GitHub issue events against Jira tickets, and the settings   *)
(* merge `merge_dicts`.                                                    *)
(*                                                                         *)
(* Python values are tagged pairs <<tag, value>> so that isinstance(x,     *)
(* dict) and truthiness are decided as the interpreter decides them.       *)
(***************************************************************************)
EXTENDS Integers, Sequences, FiniteSets, TLC

VARIABLES
    tickets,          \* the Jira store: sequence of tickets, index = creation order
    issueComments,    \* comments the app posted on the GitHub issue, counted by kind
    nDelivered,       \* webhook deliveries accepted so far
    pc,               \* per worker: position of the handler in `bot`
    payload,          \* per worker: the webhook payload being handled
    config,           \* per worker: what repo.get_contents / yaml.safe_load gave
    settings,         \* per worker: the merged settings["settings"] mapping
    existing_issues,  \* per worker: the list returned by jira.search_issues
    issue_dict,       \* per worker: the field set built for create / update
    calls,            \* per worker: external calls made for the current event
    outcome,          \* per worker: what the handler returned
    inputs,           \* the deployment of the run: its mode and the repo's config
    mA, mB, mOnce, mOut, mPhase,  \* merge_dicts exercised on its own
    mHeap             \* the mapping objects merge_dicts works on, by identity

vars == <<tickets, issueComments, nDelivered, pc, payload, config, settings,
          existing_issues, issue_dict, calls, outcome, inputs, mA, mB, mOnce, mOut, mPhase,
          mHeap>>

handlerVars == <<tickets, issueComments, nDelivered, pc, payload, config, settings,
                 existing_issues, issue_dict, calls, outcome, inputs>>

mergeVars == <<mA, mB, mOnce, mOut, mPhase, mHeap>>

-----------------------------------------------------------------------------
(* Python values *)

Str(s) == <<"str", s>>
Bool(b) == <<"bool", b>>
List(q) == <<"list", q>>
Dict(f) == <<"dict", f>>
None == <<"none", 0>>

EmptyMap == [k \in {} |-> None]

IsDict(v) == v[1] = "dict"
Keys(d) == DOMAIN d[2]
Item(d, key) == d[2][key]
SetItem(d, key, v) == Dict([k \in Keys(d) \cup {key} |-> IF k = key THEN v ELSE d[2][k]])

\* bool(v) as Python evaluates it in `if v:` / `if not v:`
Truthy(v) ==
    CASE v[1] = "str" -> v[2] # ""
      [] v[1] = "bool" -> v[2]
      [] v[1] = "list" -> Len(v[2]) > 0
      [] v[1] = "dict" -> DOMAIN v[2] # {}
      [] OTHER -> FALSE

-----------------------------------------------------------------------------
(* merge_dicts (main.py 88-99) *)

RECURSIVE merge_dicts(_, _)
RECURSIVE merge_keys(_, _, _)

\* A merge that overwrites a key d1 already holds (precedence reversed).
RECURSIVE merge_dicts_override(_, _)
merge_dicts_override(d1, d2) ==
    Dict([k \in Keys(d1) \cup Keys(d2) |->
            IF k \in Keys(d1) /\ k \in Keys(d2) /\ IsDict(Item(d1, k)) /\ IsDict(Item(d2, k))
            THEN merge_dicts_override(Item(d1, k), Item(d2, k))
            ELSE IF k \in Keys(d2) THEN Item(d2, k) ELSE Item(d1, k)])

\* A merge that, for a missing key holding a mapping, inserts a fresh empty
\* mapping instead of the default's mapping (the contents are filled only by
\* a later pass).
RECURSIVE merge_dicts_shallow(_, _)
merge_dicts_shallow(d1, d2) ==
    Dict([k \in Keys(d1) \cup Keys(d2) |->
            IF k \in Keys(d1) /\ k \in Keys(d2) /\ IsDict(Item(d1, k)) /\ IsDict(Item(d2, k))
            THEN merge_dicts_shallow(Item(d1, k), Item(d2, k))
            ELSE IF k \in Keys(d1) THEN Item(d1, k)
            ELSE IF IsDict(Item(d2, k)) THEN Dict(EmptyMap) ELSE Item(d2, k)])

\* The loop body of merge_dicts for the keys of d2 not yet visited.
merge_keys(d1, d2, todo) ==
    IF todo = {} THEN d1
    ELSE LET key == CHOOSE k \in todo : TRUE
             next == IF key \in Keys(d1) /\ IsDict(Item(d1, key)) /\ IsDict(Item(d2, key))
                     THEN SetItem(d1, key, merge_dicts(Item(d1, key), Item(d2, key)))
                     ELSE IF key \notin Keys(d1)
                          THEN SetItem(d1, key, Item(d2, key))
                          ELSE d1
         IN merge_keys(next, d2, todo \ {key})

\* merge_dicts(d1, d2): the value d1 holds after the call.
merge_dicts(d1, d2) == merge_keys(d1, d2, Keys(d2))

-----------------------------------------------------------------------------
(* merge_dicts on objects. A Python dict is an object: `d1[key] = d2[key]`  *)
(* (line 98) stores a reference to the object d2 holds, and the recursive   *)
(* call (line 96) writes into the object d1 holds. The heap maps an object  *)
(* id to the object's entries; an entry is a scalar or a reference. An      *)
(* object is named by where it was built: <<root, key path>>.               *)

Ref(id) == <<"ref", id>>
IsRef(v) == v[1] = "ref"

\* the key paths of d that lead to a mapping, d itself included
RECURSIVE DictPaths(_, _)
DictPaths(d, prefix) ==
    {prefix} \cup
    UNION {DictPaths(Item(d, k), Append(prefix, k)) : k \in {x \in Keys(d) : IsDict(Item(d, x))}}

RECURSIVE ValueAt(_, _)
ValueAt(d, path) == IF path = <<>> THEN d ELSE ValueAt(Item(d, Head(path)), Tail(path))

\* the objects a freshly built nested mapping d consists of
Objects(root, d) ==
    [id \in {<<root, path>> : path \in DictPaths(d, <<>>)} |->
        LET v == ValueAt(d, id[2])
        IN [k \in Keys(v) |-> IF IsDict(Item(v, k))
                              THEN Ref(<<root, Append(id[2], k)>>)
                              ELSE Item(v, k)]]

\* the nested mapping an object stands for
RECURSIVE Deref(_, _)
Deref(h, id) ==
    Dict([k \in DOMAIN h[id] |-> IF IsRef(h[id][k]) THEN Deref(h, h[id][k][2]) ELSE h[id][k]])

RECURSIVE heap_merge(_, _, _)
RECURSIVE heap_keys(_, _, _, _)

\* merge_dicts called with its arguments in the other order
heap_merge_swapped(h, d1, d2) == heap_keys(h, d2, d1, DOMAIN h[d1])

\* merge_dicts(d1, d2) on the objects d1 and d2: the heap after the call
heap_merge(h, d1, d2) == heap_keys(h, d1, d2, DOMAIN h[d2])

\* the loop body of lines 94-98 for the keys of d2 not yet visited
heap_keys(h, d1, d2, todo) ==
    IF todo = {} THEN h
    ELSE LET key == CHOOSE k \in todo : TRUE
             next == IF key \in DOMAIN h[d1] /\ IsRef(h[d1][key]) /\ IsRef(h[d2][key])
                     THEN heap_merge(h, h[d1][key][2], h[d2][key][2])
                     ELSE IF key \notin DOMAIN h[d1]
                          THEN [h EXCEPT ![d1] = (key :> h[d2][key]) @@ h[d1]]
                          ELSE h
         IN heap_keys(next, d1, d2, todo \ {key})

SettingsRoot == <<"settings", <<>>>>            \* the document of line 169
LaterRoot == <<"later_settings", <<>>>>         \* the document of a later event
DefaultsRoot == <<"DEFAULT_SETTINGS", <<>>>>    \* the module global of line 79

-----------------------------------------------------------------------------
(* The universe of nested mappings merge_dicts is exercised on. *)

MKeys == {"k1", "k2"}
MScalars == {Str("a"), Str("b")}

\* every mapping from a subset of MKeys to values of V
MapsOver(V) == UNION {[ks -> V] : ks \in SUBSET MKeys}

MLevel1 == {Dict(f) : f \in MapsOver(MScalars)}
MLevel2 == {Dict(f) : f \in MapsOver(MScalars \cup MLevel1)}

\* the documents of a later event: empty, or one key holding a scalar or a
\* mapping
LaterDocs ==
    {Dict(EmptyMap)} \cup {Dict(f) : f \in [{"k1"} -> MScalars \cup MLevel1]}

\* the scalar leaves of a mapping: <<key path, value>>
RECURSIVE Leaves(_, _)
Leaves(d, prefix) ==
    UNION {IF IsDict(Item(d, k))
           THEN Leaves(Item(d, k), Append(prefix, k))
           ELSE {<<Append(prefix, k), Item(d, k)>>} : k \in Keys(d)}

\* every key path of a mapping, to scalars and to sub-mappings alike
RECURSIVE Paths(_, _)
Paths(d, prefix) ==
    UNION {{Append(prefix, k)} \cup
           (IF IsDict(Item(d, k)) THEN Paths(Item(d, k), Append(prefix, k)) ELSE {})
           : k \in Keys(d)}

MergeInit ==
    /\ mA \in MLevel2
    /\ mB \in MLevel2
    /\ mOnce = Dict(EmptyMap)
    /\ mOut = Dict(EmptyMap)
    /\ mPhase = "start"
    /\ mHeap = Objects("settings", mA) @@ Objects("DEFAULT_SETTINGS", mB)

\* merge_dicts(a, b)
MergeOnce ==
    /\ mPhase = "start"
    /\ mOnce' = merge_dicts(mA, mB)
    /\ mOut' = merge_dicts(mA, mB)
    /\ mPhase' = "once"
    /\ mHeap' = heap_merge(mHeap, SettingsRoot, DefaultsRoot)
    /\ UNCHANGED <<mA, mB>>
    /\ UNCHANGED handlerVars

\* merge_dicts(a, b) again on the merged a
MergeAgain ==
    /\ mPhase = "once"
    /\ mOut' = merge_dicts(mOut, mB)
    /\ mPhase' = "twice"
    /\ mHeap' = heap_merge(mHeap, SettingsRoot, DefaultsRoot)
    /\ UNCHANGED <<mA, mB, mOnce>>
    /\ UNCHANGED handlerVars

\* a later event: a freshly parsed document is merged with the same
\* DEFAULT_SETTINGS object (lines 169, 176), the first event's merged
\* settings still sharing objects with it
MergeLater ==
    /\ mPhase = "once"
    /\ \E a \in LaterDocs :
         LET h == heap_merge(Objects("later_settings", a) @@ mHeap, LaterRoot, DefaultsRoot)
         IN /\ mA' = a
            /\ mHeap' = h
            /\ mOut' = Deref(h, LaterRoot)
    /\ mPhase' = "later"
    /\ UNCHANGED <<mB, mOnce>>
    /\ UNCHANGED handlerVars

-----------------------------------------------------------------------------
(* Bounds and inputs of the handler *)

MaxEvents == 2        \* webhook deliveries per run
MaxLabels == 2        \* labels on the issue in one payload
NumWorkers == 2       \* server processes of a multi-worker deployment
MaxRaceEvents == 3    \* webhook deliveries per run when workers overlap

Workers == 1..NumWorkers

BOT_NAME == "jira-bot"                       \* os.getenv("BOT_NAME")
IssueUrl == "https://github.com/o/r/issues/1"   \* issue.html_url
IssueAuthor == "alice"                       \* issue.user.login
IssueTitle == "title"                        \* issue.title
IssueBody == "**body**"                      \* issue.body (GitHub markdown)
ProjectComponents == {"X", "Y"}              \* jira.project_components(...)
JiraInitialStatus == "Backlog"               \* status Jira gives a new ticket

Actions == {"opened", "edited", "closed", "reopened", "created", "deleted", "unlabeled"}
Logins == {"alice", BOT_NAME}
LabelNames == {"Bug", "feature"}
CommentBody == "**LGTM**"

\* str.lower() on the strings the model uses
Lower(s) ==
    CASE s = "Bug" -> "bug"
      [] s = "BUG" -> "bug"
      [] s = "Feature" -> "feature"
      [] OTHER -> s

\* jira_text_renderer.render(Document(text)): markdown to Jira markup
Render(text) ==
    CASE text = "**LGTM**" -> "*LGTM*"
      [] text = "**body**" -> "*body*"
      [] OTHER -> text

LabelSeqs == UNION {[1..n -> LabelNames] : n \in 0..MaxLabels}

\* payloads that carry both "action" and "issue"
WellFormedPayloads ==
    {[has_action |-> TRUE, has_issue |-> TRUE, action |-> a, sender |-> s,
      labels |-> l, has_comment |-> c] :
        a \in Actions, s \in Logins, l \in LabelSeqs, c \in BOOLEAN}

\* payloads that lack "action" or "issue" (the absent key's content is unused)
PartialPayloads ==
    {[has_action |-> ha, has_issue |-> hi, action |-> a, sender |-> s,
      labels |-> <<>>, has_comment |-> FALSE] :
        ha \in BOOLEAN, hi \in BOOLEAN, a \in {"opened", "closed"}, s \in Logins}
    \ {p \in WellFormedPayloads : TRUE}

\* GitHub sends "comment" with the issue_comment actions created, edited and
\* deleted, and "created" only as an issue_comment action
Payloads ==
    {p \in WellFormedPayloads :
        /\ p.has_comment => p.action \in {"created", "edited", "deleted"}
        /\ p.action = "created" => p.has_comment}
    \cup PartialPayloads

\* DEFAULT_SETTINGS (main.py 74-79): the keys are those `bot` reads; the
\* values are those of a deployment that leaves the project key to the repo.
DEFAULT_SETTINGS ==
    Dict("settings" :> Dict(
        [jira_project_key |-> Str(""),
         status_mapping |-> Dict([opened |-> Str("To Do"), closed |-> Str("Closed")]),
         labels |-> List(<<>>),
         label_mapping |-> None,
         components |-> List(<<>>),
         epic_key |-> Str(""),
         add_gh_comment |-> Bool(FALSE),
         sync_description |-> Bool(TRUE),
         sync_comments |-> Bool(TRUE)]))

Absent == <<"absent", 0>>

\* what a repo-local .jira_sync_config.yaml may say for each key (Absent:
\* the key is not in the file)
LocalChoices ==
    \* files that name no project, or null the status mapping
    [jira_project_key : {Absent, Str("PRJ")},
     status_mapping : {None},
     labels : {Absent}, label_mapping : {Absent}, components : {Absent},
     add_gh_comment : {Absent}, sync_comments : {Absent}]
    \cup
    [jira_project_key : {Absent},
     status_mapping : {Dict([closed |-> Str("Done")])},
     labels : {Absent}, label_mapping : {Absent}, components : {Absent},
     add_gh_comment : {Absent}, sync_comments : {Absent}]
    \cup
    \* complete files
    [jira_project_key : {Str("PRJ")},
     status_mapping : {Dict([closed |-> Str("Done")])},
     labels : {Absent, List(<<"BUG">>)},
     label_mapping : {Absent, Dict([bug |-> Str("Task"), feature |-> Str("Story")])},
     components : {Absent, List(<<"X", "Z">>), List(<<"Y">>)},
     add_gh_comment : {Absent, Bool(TRUE)},
     sync_comments : {Absent, Bool(FALSE)}]

LocalDoc(c) ==
    Dict("settings" :> Dict([k \in {x \in DOMAIN c : c[x] # Absent} |-> c[k]]))

\* The result of repo.get_contents + yaml.safe_load:
\*   missing       GithubException from get_contents
\*   scanner_error yaml.safe_load raises ScannerError (e.g. "a: b: c")
\*   parser_error  yaml.safe_load raises ParserError  (e.g. "a: [1, 2")
\*   document      a mapping
Configs ==
    {[kind |-> k, doc |-> None] : k \in {"missing", "scanner_error", "parser_error"}}
    \cup {[kind |-> "document", doc |-> LocalDoc(c)] : c \in LocalChoices}

Call(op, ticket, arg, ok) == [op |-> op, ticket |-> ticket, arg |-> arg, ok |-> ok]

\* a worker that holds no payload / no config yet
NoPayload == [has_action |-> FALSE, has_issue |-> FALSE, action |-> "", sender |-> "",
              labels |-> <<>>, has_comment |-> FALSE]
NoConfig == [kind |-> "none", doc |-> None]

NoIssueDict == [project |-> "", summary |-> "", description |-> None,
                issuetype |-> "", parent |-> None, components |-> None]

HandlerInit ==
    /\ tickets = <<>>
    /\ issueComments = [diagnostic |-> 0, ticket_link |-> 0]
    /\ nDelivered = 0
    /\ pc = [w \in Workers |-> "idle"]
    /\ payload = [w \in Workers |-> NoPayload]
    /\ config = [w \in Workers |-> NoConfig]
    /\ settings = [w \in Workers |-> None]
    /\ existing_issues = [w \in Workers |-> <<>>]
    /\ issue_dict = [w \in Workers |-> NoIssueDict]
    /\ calls = [w \in Workers |-> <<>>]
    /\ outcome = [w \in Workers |-> "none"]

MergeIdle ==
    /\ mA = Dict(EmptyMap)
    /\ mB = Dict(EmptyMap)
    /\ mOnce = Dict(EmptyMap)
    /\ mOut = Dict(EmptyMap)
    /\ mPhase = "off"
    /\ mHeap = <<>>

\* when several workers serve the repository: deliveries of user events for
\* one issue overlap, the repo holds one plain config file
RacePayloads ==
    {p \in WellFormedPayloads :
        /\ p.sender = "alice" /\ p.labels = <<>>
        /\ p.action \in {"opened", "edited", "closed", "created"}
        /\ p.has_comment = (p.action = "created")}

RaceConfigs ==
    {[kind |-> "document",
      doc |-> Dict("settings" :> Dict([jira_project_key |-> Str("PRJ"),
                                       status_mapping |-> Dict([closed |-> Str("Done")])]))]}

\* what a run in the mode of `inputs` can meet
DeliverablePayloads == IF inputs.mode = "race" THEN RacePayloads ELSE Payloads

RepoConfigs ==
    CASE inputs.mode = "race" -> RaceConfigs
      [] inputs.mode = "fixed" -> {inputs.config}
      [] OTHER -> Configs

EventLimit == IF inputs.mode = "race" THEN MaxRaceEvents ELSE MaxEvents

-----------------------------------------------------------------------------
(* Pure parts of `bot` *)

Range(q) == {q[i] : i \in 1..Len(q)}

\* [x.lower() for x in q]
LowerAll(q) == [i \in 1..Len(q) |-> Lower(q[i])]

\* the order in which the ticket system lists component names
ComponentOrder == <<"X", "Y", "Z">>

\* a set of component names as the list the ticket system returns
SetToSeq(S) == SelectSeq(ComponentOrder, LAMBDA c : c \in S)

\* line 130: the malformed-payload test. Python evaluates payload["action"]
\* only when the first conjunct is true; the lookup raises KeyError when the
\* key is absent.
DecodeRaises(p) == ~(p.has_action /\ p.has_issue) /\ ~p.has_action
DecodeIgnores(p) == ~(p.has_action /\ p.has_issue) /\ p.has_action /\ p.action = "opened"

\* line 133 comparing the author of the issue instead of the sender
FromBotAuthor(p) == IssueAuthor = BOT_NAME

\* line 133
FromBot(p) == p.sender = BOT_NAME

\* lines 137-143
IgnoredAction(p) ==
    \/ p.action \in {"deleted", "unlabeled"}
    \/ p.action = "edited" /\ p.has_comment

\* lines 175-177: merge the defaults into the parsed document, take "settings"
ResolveSettings(doc) == Item(merge_dicts(doc, DEFAULT_SETTINGS), "settings")

\* line 179 written as `is None`: an empty string passes
EmptyProjectKeyIsNone(s) == Item(s, "jira_project_key") = None

\* line 179: `if not settings["jira_project_key"]`
EmptyProjectKey(s) == ~Truthy(Item(s, "jira_project_key"))

\* line 185: `if not settings["status_mapping"]`
EmptyStatusMapping(s) == ~Truthy(Item(s, "status_mapping"))

\* line 193 without the `allowed_labels and` conjunct: an empty allow-list
\* blocks every event
LabelGateBlocksEmpty(s, p) ==
    ~ \E i \in 1..Len(p.labels) : Lower(p.labels[i]) \in Range(LowerAll(Item(s, "labels")[2]))

\* lines 191-193
LabelGateBlocks(s, p) ==
    LET allowed_labels == LowerAll(Item(s, "labels")[2])
        payload_labels == LowerAll(p.labels)
    IN /\ allowed_labels # <<>>
       /\ ~ \E i \in 1..Len(payload_labels) : payload_labels[i] \in Range(allowed_labels)

\* the loop of lines 216-219 from position i on
RECURSIVE FirstMapped(_, _, _)
FirstMapped(payload_labels, label_mapping, i) ==
    IF i > Len(payload_labels) THEN "Bug"
    ELSE IF payload_labels[i] \in DOMAIN label_mapping[2]
         THEN label_mapping[2][payload_labels[i]][2]
         ELSE FirstMapped(payload_labels, label_mapping, i + 1)

\* the loop of lines 216-219 without the `break`: the last mapped label wins
RECURSIVE LastMapped(_, _, _, _)
LastMapped(payload_labels, label_mapping, i, acc) ==
    IF i > Len(payload_labels) THEN acc
    ELSE LastMapped(payload_labels, label_mapping, i + 1,
                    IF payload_labels[i] \in DOMAIN label_mapping[2]
                    THEN label_mapping[2][payload_labels[i]][2] ELSE acc)

IssueTypeNoBreak(s, p) ==
    IF Truthy(Item(s, "label_mapping"))
    THEN LastMapped(LowerAll(p.labels), Item(s, "label_mapping"), 1, "Bug")
    ELSE "Bug"

\* lines 192, 214-219
IssueType(s, p) ==
    IF Truthy(Item(s, "label_mapping"))
    THEN FirstMapped(LowerAll(p.labels), Item(s, "label_mapping"), 1)
    ELSE "Bug"

\* lines 203-212: jira_issue_description_template filled in
IssueDescription(s) ==
    [gh_issue_url |-> IssueUrl,
     gh_issue_author |-> IssueAuthor,
     gh_issue_body |-> IF Truthy(Item(s, "sync_description")) /\ IssueBody # ""
                       THEN Render(IssueBody) ELSE ""]

\* lines 233-237: the settings' components that the project knows
MappedComponents(s) ==
    SelectSeq(Item(s, "components")[2], LAMBDA c : c \in ProjectComponents)

\* lines 221-237
BuildIssueDict(s, p) ==
    [project |-> Item(s, "jira_project_key")[2],
     summary |-> IssueTitle,
     description |-> IssueDescription(s),
     issuetype |-> IssueType(s, p),
     parent |-> IF Truthy(Item(s, "epic_key")) THEN Item(s, "epic_key") ELSE None,
     components |-> IF Truthy(Item(s, "components"))
                    THEN List(MappedComponents(s)) ELSE None]

\* lines 260-263: append the ticket's components to the mapped ones
EditComponents(s, d, jira_issue) ==
    IF Truthy(Item(s, "components"))
    THEN [d EXCEPT !.components =
            List(d.components[2] \o SetToSeq(jira_issue.components))]
    ELSE d

\* lines 198-201: project = key AND description ~ "url", as a locator that
\* returns every ticket of the project whose description holds the URL
SearchIssues(key, url) ==
    LET ids == SelectSeq([i \in 1..Len(tickets) |-> i],
                         LAMBDA i : tickets[i].project = key
                                    /\ tickets[i].description.gh_issue_url = url)
    IN [k \in 1..Len(ids) |-> [id |-> ids[k], components |-> tickets[ids[k]].components]]

\* line 242 with the test dropped
TakesCreateBranchAlways(existing) == TRUE

\* line 242: `if not existing_issues`
TakesCreateBranch(existing) == existing = <<>>

\* line 243 with the test dropped
SkipsCreateNever(p) == FALSE

\* line 243 with a uniqueness check added: nothing is created when a ticket
\* with the issue's marker is in the store at the time of the create
SkipsCreateIfTicketNow(p) ==
    \/ p.action = "closed"
    \/ \E i \in 1..Len(tickets) : tickets[i].description.gh_issue_url = IssueUrl

\* line 243: a close of an issue that has no ticket creates nothing
SkipsCreate(p) == p.action = "closed"

\* lines 255-258 with the two targets swapped
TransitionTargetSwapped(s, p) ==
    IF p.action = "closed" THEN Item(Item(s, "status_mapping"), "opened")[2]
    ELSE IF p.action = "reopened" THEN Item(Item(s, "status_mapping"), "closed")[2]
    ELSE ""

\* line 257 written as a plain `else`: every action but `closed` moves the
\* ticket to opened_status
TransitionTargetElse(s, p) ==
    IF p.action = "closed" THEN Item(Item(s, "status_mapping"), "closed")[2]
    ELSE Item(Item(s, "status_mapping"), "opened")[2]

\* lines 239-240, 255-258: the status the event moves an existing ticket to
\* ("" when the event is no close or reopen)
TransitionTarget(s, p) ==
    IF p.action = "closed" THEN Item(Item(s, "status_mapping"), "closed")[2]
    ELSE IF p.action = "reopened" THEN Item(Item(s, "status_mapping"), "opened")[2]
    ELSE ""

\* line 247 left out: the new ticket is not appended to the list
AppendCreatedForgotten(existing, new_issue) == existing

\* line 247: existing_issues.append(new_issue)
AppendCreated(existing, new_issue) == Append(existing, new_issue)

\* line 249 without the test: the link is posted whatever add_gh_comment says
PostsLinkAlways(s) == TRUE

\* line 249: `if settings["add_gh_comment"]`
PostsLink(s) == Truthy(Item(s, "add_gh_comment"))

\* lines 254, 274 taking the last match, existing_issues[-1]
FirstMatchLast(existing) == existing[Len(existing)]

\* lines 254, 274: existing_issues[0]
FirstMatch(existing) == existing[1]

\* line 267 without the settings["sync_comments"] conjunct
SyncsCommentAlways(s, p) == p.has_action /\ p.action = "created" /\ p.has_comment

\* line 267
SyncsComment(s, p) ==
    Truthy(Item(s, "sync_comments")) /\ p.action = "created" /\ p.has_comment

\* line 275: the text of the Jira comment
CommentText(p) == [user |-> p.sender, body |-> Render(CommentBody)]

\* the ticket jira.create_issue(fields) stores (of the fields, the store
\* keeps those a later search, transition or edit reads)
NewTicket(d) ==
    [project |-> d.project,
     description |-> d.description,
     status |-> JiraInitialStatus,
     components |-> IF d.components[1] = "none" THEN {} ELSE Range(d.components[2]),
     comments |-> 0]

\* the ticket after jira_issue.update(fields)
UpdatedTicket(t, d) ==
    [t EXCEPT !.project = d.project,
              !.description = d.description,
              !.components = IF d.components[1] = "none" THEN t.components
                             ELSE Range(d.components[2])]

-----------------------------------------------------------------------------
(* The handler `bot`, one action per stretch between external calls *)

\* the handler body wrapped in a blanket `except: return "ok"`
FinishSwallowed(w, newpc, out, cs) ==
    /\ pc' = [pc EXCEPT ![w] = "done"]
    /\ outcome' = [outcome EXCEPT ![w] = "ok"]
    /\ calls' = [calls EXCEPT ![w] = calls[w] \o cs]

\* leave the handler: `return` (newpc = "done") or an exception ("failed")
Finish(w, newpc, out, cs) ==
    /\ pc' = [pc EXCEPT ![w] = newpc]
    /\ outcome' = [outcome EXCEPT ![w] = out]
    /\ calls' = [calls EXCEPT ![w] = calls[w] \o cs]

\* go on to the next stretch of the handler
Goto(w, newpc, cs) ==
    /\ pc' = [pc EXCEPT ![w] = newpc]
    /\ calls' = [calls EXCEPT ![w] = calls[w] \o cs]
    /\ UNCHANGED outcome

\* issue.create_comment(text) followed by `return "ok"`, after the calls pre
PostDiagnostic(w, pre, text, ok) ==
    /\ issueComments' = IF ok THEN [issueComments EXCEPT !.diagnostic = @ + 1]
                        ELSE issueComments
    /\ Finish(w, IF ok THEN "done" ELSE "failed", IF ok THEN "ok" ELSE "error",
              pre \o <<Call("create_comment", 0, text, ok)>>)

\* a webhook delivery reaches a free worker (lines 122-127)
Deliver(w) ==
    /\ pc[w] = "idle"
    /\ nDelivered < EventLimit
    /\ \E p \in DeliverablePayloads : payload' = [payload EXCEPT ![w] = p]
    /\ nDelivered' = nDelivered + 1
    /\ pc' = [pc EXCEPT ![w] = "classify"]
    /\ UNCHANGED <<tickets, issueComments, config, settings, existing_issues,
                   issue_dict, calls, outcome>>
    /\ UNCHANGED <<inputs, mergeVars>>

\* lines 129-143: the filters that need no settings
Classify(w) ==
    /\ pc[w] = "classify"
    /\ LET p == payload[w]
       IN IF DecodeRaises(p) THEN Finish(w, "failed", "error", <<>>)
          ELSE IF DecodeIgnores(p) THEN Finish(w, "done", "ok", <<>>)
          ELSE IF FromBot(p) THEN Finish(w, "done", "bot_ignored", <<>>)
          ELSE IF IgnoredAction(p) THEN Finish(w, "done", "ok", <<>>)
          ELSE Goto(w, "load_settings", <<>>)
    /\ UNCHANGED <<tickets, issueComments, nDelivered, payload, config, settings,
                   existing_issues, issue_dict>>
    /\ UNCHANGED <<inputs, mergeVars>>

\* lines 145-159: the GitHub connection and repo.get_issue fail, or the
\* payload has no "issue" key for payload["issue"]["number"]
GetIssueFails(w) ==
    /\ pc[w] = "load_settings"
    /\ Finish(w, "failed", "error", <<Call("get_issue", 0, None, FALSE)>>)
    /\ UNCHANGED <<tickets, issueComments, nDelivered, payload, config, settings,
                   existing_issues, issue_dict>>
    /\ UNCHANGED <<inputs, mergeVars>>

\* the configs for which the handler calls issue.create_comment (lines 165,
\* 172, 180, 186)
PostsDiagnostic(c) ==
    \/ c.kind \in {"missing", "scanner_error"}
    \/ /\ c.kind = "document"
       /\ \/ EmptyProjectKey(ResolveSettings(c.doc))
          \/ EmptyStatusMapping(ResolveSettings(c.doc))

\* lines 145-195: fetch and parse the repo-local config, merge the defaults,
\* validate, apply the label gate
LoadSettings(w) ==
    /\ pc[w] = "load_settings"
    /\ payload[w].has_issue
    /\ \E c \in RepoConfigs :
       \E ok \in (IF PostsDiagnostic(c) THEN BOOLEAN ELSE {TRUE}) :
        LET got == <<Call("get_issue", 0, None, TRUE)>>
            s == ResolveSettings(c.doc)
        IN /\ config' = [config EXCEPT ![w] = c]
           /\ IF c.kind = "missing"
              THEN /\ PostDiagnostic(w, got, "config_missing", ok)
                   /\ UNCHANGED settings
              ELSE IF c.kind = "scanner_error"
              THEN /\ PostDiagnostic(w, got, "config_invalid", ok)
                   /\ UNCHANGED settings
              ELSE IF c.kind = "parser_error"
              THEN /\ Finish(w, "failed", "error", got)
                   /\ UNCHANGED <<settings, issueComments>>
              ELSE /\ settings' = [settings EXCEPT ![w] = s]
                   /\ IF EmptyProjectKey(s)
                      THEN PostDiagnostic(w, got, "no_project_key", ok)
                      ELSE IF EmptyStatusMapping(s)
                      THEN PostDiagnostic(w, got, "no_status_mapping", ok)
                      ELSE IF LabelGateBlocks(s, payload[w])
                      THEN /\ Finish(w, "done", "ok", got)
                           /\ UNCHANGED issueComments
                      ELSE /\ Goto(w, "search", got)
                           /\ UNCHANGED issueComments
    /\ UNCHANGED <<tickets, nDelivered, payload, existing_issues, issue_dict>>
    /\ UNCHANGED <<inputs, mergeVars>>

\* lines 197-202: jira.search_issues
Search(w) ==
    /\ pc[w] = "search"
    /\ LET key == Item(settings[w], "jira_project_key")[2]
           found == SearchIssues(key, IssueUrl)
       IN \E ok \in BOOLEAN :
            IF ok
            THEN /\ existing_issues' = [existing_issues EXCEPT ![w] = found]
                 /\ Goto(w, "reconcile",
                         <<Call("search_issues", 0, [i \in 1..Len(found) |-> found[i].id], TRUE)>>)
            ELSE /\ Finish(w, "failed", "error", <<Call("search_issues", 0, <<>>, FALSE)>>)
                 /\ UNCHANGED existing_issues
    /\ UNCHANGED <<tickets, issueComments, nDelivered, payload, config, settings, issue_dict>>
    /\ UNCHANGED <<inputs, mergeVars>>

\* lines 203-265: map the fields, then create, transition or update
Reconcile(w) ==
    /\ pc[w] = "reconcile"
    /\ LET s == settings[w]
           p == payload[w]
           d == BuildIssueDict(s, p)
           existing == existing_issues[w]
           lookup == Truthy(Item(s, "components"))
           creates == TakesCreateBranch(existing) /\ ~SkipsCreate(p)
           writes == \/ creates
                     \/ /\ ~TakesCreateBranch(existing)
                        /\ TransitionTarget(s, p) # "" \/ p.action = "edited"
           posts == creates /\ PostsLink(s)
       IN \E compsOk \in (IF lookup THEN BOOLEAN ELSE {TRUE}) :
          \E callOk \in (IF compsOk /\ writes THEN BOOLEAN ELSE {TRUE}) :
          \E commentOk \in (IF compsOk /\ callOk /\ posts THEN BOOLEAN ELSE {TRUE}) :
           LET cs0 == IF lookup
                      THEN <<Call("project_components", 0, d.project, compsOk)>> ELSE <<>>
           IN IF lookup /\ ~compsOk
              THEN /\ Finish(w, "failed", "error", cs0)
                   /\ UNCHANGED <<tickets, issueComments, existing_issues, issue_dict>>
              ELSE IF TakesCreateBranch(existing)
              THEN IF SkipsCreate(p)
                   THEN /\ Finish(w, "done", "ok", cs0)
                        /\ issue_dict' = [issue_dict EXCEPT ![w] = d]
                        /\ UNCHANGED <<tickets, issueComments, existing_issues>>
                   ELSE LET id == Len(tickets) + 1
                            cs1 == cs0 \o <<Call("create_issue", id, d, callOk)>>
                            post == PostsLink(s)
                            cs2 == IF post
                                   THEN cs1 \o <<Call("create_comment", id, "ticket_link", commentOk)>>
                                   ELSE cs1
                        IN /\ issue_dict' = [issue_dict EXCEPT ![w] = d]
                           /\ IF ~callOk
                              THEN /\ Finish(w, "failed", "error", cs1)
                                   /\ UNCHANGED <<tickets, issueComments, existing_issues>>
                              ELSE /\ tickets' = Append(tickets, NewTicket(d))
                                   /\ existing_issues' =
                                        [existing_issues EXCEPT ![w] =
                                           AppendCreated(existing,
                                               [id |-> id, components |-> NewTicket(d).components])]
                                   /\ IF post /\ ~commentOk
                                      THEN /\ Finish(w, "failed", "error", cs2)
                                           /\ UNCHANGED issueComments
                                      ELSE /\ Goto(w, "sync_comment", cs2)
                                           /\ issueComments' =
                                                IF post
                                                THEN [issueComments EXCEPT !.ticket_link = @ + 1]
                                                ELSE issueComments
              ELSE LET jira_issue == FirstMatch(existing)
                       target == TransitionTarget(s, p)
                       e == EditComponents(s, d, jira_issue)
                   IN /\ UNCHANGED <<issueComments, existing_issues>>
                      /\ IF target # ""
                         THEN /\ issue_dict' = [issue_dict EXCEPT ![w] = d]
                              /\ tickets' = IF callOk
                                            THEN [tickets EXCEPT ![jira_issue.id].status = target]
                                            ELSE tickets
                              /\ LET cs1 == cs0 \o <<Call("transition_issue", jira_issue.id,
                                                          target, callOk)>>
                                 IN IF callOk THEN Goto(w, "sync_comment", cs1)
                                    ELSE Finish(w, "failed", "error", cs1)
                         ELSE IF p.action = "edited"
                         THEN /\ issue_dict' = [issue_dict EXCEPT ![w] = e]
                              /\ tickets' = IF callOk
                                            THEN [tickets EXCEPT ![jira_issue.id] =
                                                    UpdatedTicket(tickets[jira_issue.id], e)]
                                            ELSE tickets
                              /\ LET cs1 == cs0 \o <<Call("update", jira_issue.id, e, callOk)>>
                                 IN IF callOk THEN Goto(w, "sync_comment", cs1)
                                    ELSE Finish(w, "failed", "error", cs1)
                         ELSE /\ issue_dict' = [issue_dict EXCEPT ![w] = d]
                              /\ UNCHANGED tickets
                              /\ Goto(w, "sync_comment", cs0)
    /\ UNCHANGED <<nDelivered, payload, config, settings>>
    /\ UNCHANGED <<inputs, mergeVars>>

\* lines 267-279: forward a new GitHub comment to the ticket
SyncComment(w) ==
    /\ pc[w] = "sync_comment"
    /\ LET s == settings[w]
           p == payload[w]
           existing == existing_issues[w]
       IN IF SyncsComment(s, p)
          THEN IF existing = <<>>
               THEN /\ Finish(w, "failed", "error", <<>>)
                    /\ UNCHANGED tickets
               ELSE \E ok \in BOOLEAN :
                      /\ tickets' = IF ok
                                    THEN [tickets EXCEPT ![FirstMatch(existing).id].comments = @ + 1]
                                    ELSE tickets
                      /\ Finish(w, IF ok THEN "done" ELSE "failed",
                                IF ok THEN "ok" ELSE "error",
                                <<Call("add_comment", FirstMatch(existing).id,
                                       CommentText(p), ok)>>)
          ELSE /\ Finish(w, "done", "ok", <<>>)
               /\ UNCHANGED tickets
    /\ UNCHANGED <<issueComments, nDelivered, payload, config, settings,
                   existing_issues, issue_dict>>
    /\ UNCHANGED <<inputs, mergeVars>>

\* the response is sent and the handler's frame is gone
Respond(w) ==
    /\ pc[w] \in {"done", "failed"}
    /\ pc' = [pc EXCEPT ![w] = "idle"]
    /\ payload' = [payload EXCEPT ![w] = NoPayload]
    /\ config' = [config EXCEPT ![w] = NoConfig]
    /\ settings' = [settings EXCEPT ![w] = None]
    /\ existing_issues' = [existing_issues EXCEPT ![w] = <<>>]
    /\ issue_dict' = [issue_dict EXCEPT ![w] = NoIssueDict]
    /\ calls' = [calls EXCEPT ![w] = <<>>]
    /\ outcome' = [outcome EXCEPT ![w] = "none"]
    /\ UNCHANGED <<tickets, issueComments, nDelivered>>
    /\ UNCHANGED <<inputs, mergeVars>>

Handle(w) ==
    \/ Deliver(w)
    \/ Respond(w)
    \/ Classify(w)
    \/ GetIssueFails(w)
    \/ LoadSettings(w)
    \/ Search(w)
    \/ Reconcile(w)
    \/ SyncComment(w)

-----------------------------------------------------------------------------
(* Specifications *)

\* One server process, as `uvicorn.run(app, ...)` starts it (lines 282-285):
\* the handler makes only blocking calls, so deliveries are handled one
\* after another.
\* any payload and any state of the repo's config file, event by event
AnyInputs == [mode |-> "any", config |-> NoConfig]

Init == HandlerInit /\ MergeIdle /\ inputs = AnyInputs

Next == Handle(1)

Spec == Init /\ [][Next]_vars

\* the repo holds one config file, valid and the same for every event
ValidConfigs ==
    {c \in Configs : /\ c.kind = "document"
                     /\ ~EmptyProjectKey(ResolveSettings(c.doc))
                     /\ ~EmptyStatusMapping(ResolveSettings(c.doc))}

InitFixed ==
    /\ HandlerInit /\ MergeIdle
    /\ \E c \in ValidConfigs : inputs = [mode |-> "fixed", config |-> c]

SpecFixed == InitFixed /\ [][Next]_vars

\* several workers serve the same repository
InitRace ==
    /\ HandlerInit /\ MergeIdle
    /\ inputs = [mode |-> "race", config |-> NoConfig]

NextRace == \E w \in Workers : Handle(w)

SpecRace == InitRace /\ [][NextRace]_vars

\* merge_dicts applied to every pair of nested mappings of the universe
NoInputs == [mode |-> "none", config |-> NoConfig]

InitMerge == HandlerInit /\ MergeInit /\ inputs = NoInputs

NextMerge == MergeOnce \/ MergeAgain \/ MergeLater

SpecMerge == InitMerge /\ [][NextMerge]_vars

-----------------------------------------------------------------------------
(* What the properties read *)

CallsOf(w, op) == SelectSeq(calls[w], LAMBDA c : c.op = op)
NCalls(w, op) == Len(CallsOf(w, op))

\* the handler of w has resolved its settings (lines 175-177 were reached)
HasSettings(w) == settings[w][1] = "dict"

\* the settings passed the checks of lines 179-189
ValidSettings(w) ==
    /\ HasSettings(w)
    /\ Truthy(Item(settings[w], "jira_project_key"))
    /\ Truthy(Item(settings[w], "status_mapping"))

\* jira.search_issues returned, and what it returned (ticket ids)
Searched(w) == NCalls(w, "search_issues") = 1 /\ CallsOf(w, "search_issues")[1].ok
Found(w) == CallsOf(w, "search_issues")[1].arg

\* no external call of the current event raised
NoCallFailed(w) == \A i \in 1..Len(calls[w]) : calls[w][i].ok

\* no call that writes to a ticket, and no comment on the issue
NoWrite(w) ==
    /\ NCalls(w, "create_issue") = 0
    /\ NCalls(w, "transition_issue") = 0
    /\ NCalls(w, "update") = 0
    /\ NCalls(w, "add_comment") = 0
    /\ NCalls(w, "create_comment") = 0

TicketsWithMarker == {i \in 1..Len(tickets) : tickets[i].description.gh_issue_url = IssueUrl}

-----------------------------------------------------------------------------
(* Properties *)

\* C1: with deliveries handled one after another, create_issue is called
\* only when the search returned no ticket, and at most one ticket carries
\* the issue's URL.
C1_IdempotentCreate ==
    /\ Cardinality(TicketsWithMarker) <= 1
    /\ \A w \in Workers :
         NCalls(w, "create_issue") > 0 => Searched(w) /\ Found(w) = <<>>

\* a replayed `opened` event found the ticket the first delivery created
C1_Witness ==
    \E w \in Workers :
        /\ pc[w] = "done"
        /\ payload[w].action = "opened"
        /\ Searched(w) /\ Found(w) = <<1>>
        /\ Cardinality(TicketsWithMarker) = 1
        /\ nDelivered = 2

\* C2: a `closed` event that passed the filters and whose search found no
\* ticket makes no create, transition, update or comment call, posts no
\* issue comment, and returns "ok".
C2_CloseWithoutCreate ==
    \A w \in Workers :
        (payload[w].has_action /\ payload[w].action = "closed"
         /\ Searched(w) /\ Found(w) = <<>>)
        => /\ NoWrite(w)
           /\ pc[w] # "sync_comment"
           /\ (pc[w] \in {"done", "failed"} /\ NoCallFailed(w)
               => pc[w] = "done" /\ outcome[w] = "ok")
           /\ TicketsWithMarker = {}

C2_Witness ==
    \E w \in Workers :
        /\ pc[w] = "done" /\ outcome[w] = "ok"
        /\ payload[w].action = "closed"
        /\ Searched(w) /\ Found(w) = <<>>
        /\ tickets = <<>>

\* C3: with valid settings, an issue none of whose labels equals an allowed
\* label, case-insensitively, with a non-empty allow-list, is a no-op: the
\* handler returns "ok" having made no search, create, transition, update or
\* comment call. An empty allow-list blocks no event, whatever its labels.
NoLabelAllowed(w) ==
    LET allowed == Item(settings[w], "labels")[2]
        labels == payload[w].labels
    IN /\ Len(allowed) > 0
       /\ \A i \in 1..Len(labels), j \in 1..Len(allowed) : Lower(labels[i]) # Lower(allowed[j])

C3_LabelGate ==
    \A w \in Workers :
        ValidSettings(w) /\ pc[w] # "load_settings" =>
            /\ NoLabelAllowed(w) =>
                  /\ pc[w] = "done" /\ outcome[w] = "ok"
                  /\ NCalls(w, "search_issues") = 0
                  /\ NoWrite(w)
            /\ Item(settings[w], "labels")[2] = <<>> =>
                  pc[w] = "search" \/ NCalls(w, "search_issues") = 1

\* labels {feature, feature} against the allow-list {BUG}
C3_Witness ==
    \E w \in Workers :
        /\ ValidSettings(w) /\ pc[w] = "done"
        /\ NoLabelAllowed(w)
        /\ Len(payload[w].labels) = 2

\* C4: a `closed` event that passed the filters and found a ticket makes
\* exactly one transition call, on the first ticket found, to
\* status_mapping.closed, and no create, update or add_comment call.
ClosedWithTicket(w) ==
    /\ payload[w].has_action /\ payload[w].action = "closed"
    /\ Searched(w) /\ Found(w) # <<>>

C4_CloseTransitions ==
    \A w \in Workers :
        ClosedWithTicket(w) =>
            /\ NCalls(w, "create_issue") = 0
            /\ NCalls(w, "update") = 0
            /\ NCalls(w, "add_comment") = 0
            /\ NCalls(w, "transition_issue") <= 1
            /\ pc[w] \in {"sync_comment", "done"} =>
                  /\ NCalls(w, "transition_issue") = 1
                  /\ CallsOf(w, "transition_issue")[1].ticket = Found(w)[1]
                  /\ CallsOf(w, "transition_issue")[1].arg =
                        Item(Item(settings[w], "status_mapping"), "closed")[2]
                  /\ tickets[Found(w)[1]].status =
                        Item(Item(settings[w], "status_mapping"), "closed")[2]

C4_Witness ==
    \E w \in Workers :
        /\ pc[w] = "done"
        /\ ClosedWithTicket(w)
        /\ NCalls(w, "transition_issue") = 1
        /\ tickets[Found(w)[1]].status = "Done"

\* C5: a `created` event that carries a comment, with sync_comments true
\* and a ticket found, makes exactly one add_comment call, on the first
\* ticket found, whose text holds the sender's login and the rendered
\* comment body, and no update, transition or create call; with
\* sync_comments false the event makes no add_comment call.
CommentEvent(w) ==
    /\ payload[w].has_action /\ payload[w].action = "created" /\ payload[w].has_comment
    /\ HasSettings(w)

C5_CommentSync ==
    \A w \in Workers :
        CommentEvent(w) =>
            /\ ~Truthy(Item(settings[w], "sync_comments")) => NCalls(w, "add_comment") = 0
            /\ (Truthy(Item(settings[w], "sync_comments")) /\ Searched(w) /\ Found(w) # <<>>) =>
                  /\ NCalls(w, "update") = 0
                  /\ NCalls(w, "transition_issue") = 0
                  /\ NCalls(w, "create_issue") = 0
                  /\ NCalls(w, "add_comment") <= 1
                  /\ pc[w] = "done" =>
                        /\ NCalls(w, "add_comment") = 1
                        /\ CallsOf(w, "add_comment")[1].ticket = Found(w)[1]
                        /\ CallsOf(w, "add_comment")[1].arg.user = payload[w].sender
                        /\ CallsOf(w, "add_comment")[1].arg.body = "*LGTM*"

C5_Witness ==
    \E w \in Workers :
        /\ pc[w] = "done"
        /\ CommentEvent(w)
        /\ Truthy(Item(settings[w], "sync_comments"))
        /\ Searched(w) /\ Found(w) # <<>>
        /\ NCalls(w, "add_comment") = 1
        /\ tickets[Found(w)[1]].comments = 1

\* the handler of w has built its field set (lines 214-237 were reached)
HasIssueDict(w) == issue_dict[w].issuetype # ""

\* the first position of `labels` that satisfies Test, 0 when none does
FirstIndex(labels, Test(_)) ==
    IF \E i \in 1..Len(labels) : Test(labels[i])
    THEN CHOOSE i \in 1..Len(labels) :
            Test(labels[i]) /\ \A j \in 1..(i - 1) : ~Test(labels[j])
    ELSE 0

LabelMappingOf(w) ==
    IF Truthy(Item(settings[w], "label_mapping"))
    THEN Item(settings[w], "label_mapping")[2] ELSE EmptyMap

\* C6 as stated: the issue type is the label_mapping value of the first
\* label, in the issue's label order, that is a key of label_mapping, and
\* "Bug" when no label is a key or the mapping is absent or empty.
C6_IssueTypeExact ==
    \A w \in Workers :
        HasIssueDict(w) =>
            LET m == LabelMappingOf(w)
                labels == payload[w].labels
                i == FirstIndex(labels, LAMBDA l : l \in DOMAIN m)
            IN issue_dict[w].issuetype = IF i = 0 THEN "Bug" ELSE m[labels[i]][2]

\* C6 amended: the issue type is the label_mapping value of the first label,
\* in the issue's label order, whose lower-cased name is a key of
\* label_mapping (the value at the lower-cased name), and "Bug" when no
\* label's lower-cased name is a key or the mapping is absent or empty.
C6_IssueTypeLowered ==
    \A w \in Workers :
        HasIssueDict(w) =>
            LET m == LabelMappingOf(w)
                labels == payload[w].labels
                i == FirstIndex(labels, LAMBDA l : Lower(l) \in DOMAIN m)
            IN issue_dict[w].issuetype = IF i = 0 THEN "Bug" ELSE m[Lower(labels[i])][2]

\* labels [feature, Bug] under {bug: Task, feature: Story} give Story
C6_Witness ==
    \E w \in Workers :
        /\ HasIssueDict(w)
        /\ payload[w].labels = <<"feature", "Bug">>
        /\ DOMAIN LabelMappingOf(w) = {"bug", "feature"}
        /\ issue_dict[w].issuetype = "Story"

\* C7: the component list an `edited` event sends in its field update, with
\* settings.components non-empty and a ticket found, is the union by name of
\* the ticket's components and the newly mapped components and holds no
\* name twice.
NoDuplicates(q) == \A i \in 1..Len(q), j \in 1..Len(q) : q[i] = q[j] => i = j

C7_ComponentUnion ==
    \A w \in Workers :
        (NCalls(w, "update") = 1 /\ CallsOf(w, "update")[1].ok
         /\ Truthy(Item(settings[w], "components"))) =>
            LET sent == CallsOf(w, "update")[1].arg.components[2]
                existing == existing_issues[w][1].components
                mapped == {c \in Range(Item(settings[w], "components")[2]) :
                              c \in ProjectComponents}
            IN /\ Range(sent) = existing \cup mapped
               /\ NoDuplicates(sent)

\* C8: merging the defaults b into a and then merging b into the result
\* again gives the mapping that merging once gives.
C8_MergeIdempotent == mPhase = "twice" => mOut = mOnce

\* the first merge filled a gap inside a sub-mapping both documents hold
C8_Witness ==
    /\ mPhase = "twice"
    /\ \E k \in Keys(mA) \cap Keys(mB) :
          /\ IsDict(Item(mA, k)) /\ IsDict(Item(mB, k))
          /\ Keys(Item(mB, k)) \ Keys(Item(mA, k)) # {}
          /\ Keys(Item(mOnce, k)) = Keys(Item(mA, k)) \cup Keys(Item(mB, k))

\* C9: every key path at which the repo-local document a holds a scalar
\* holds the same value after the merge, whatever the defaults b hold there;
\* no key path of a is removed; and what the merge adds are key paths that a
\* lacks, with the defaults' values.
C9_MergePrecedence ==
    mPhase \in {"once", "twice"} =>
        /\ Leaves(mA, <<>>) \subseteq Leaves(mOut, <<>>)
        /\ Paths(mA, <<>>) \subseteq Paths(mOut, <<>>)
        /\ \A leaf \in Leaves(mOut, <<>>) \ Leaves(mA, <<>>) :
              /\ leaf \in Leaves(mB, <<>>)
              /\ leaf[1] \notin Paths(mA, <<>>)
        /\ Paths(mOut, <<>>) \subseteq Paths(mA, <<>>) \cup Paths(mB, <<>>)

\* both documents hold a scalar at the same key, with different values
C9_Witness ==
    /\ mPhase = "once"
    /\ \E k \in Keys(mA) \cap Keys(mB) :
          /\ ~IsDict(Item(mA, k)) /\ ~IsDict(Item(mB, k))
          /\ Item(mA, k) # Item(mB, k)
          /\ Item(mOut, k) = Item(mA, k)

\* C10: in each user-fixable condition (config file missing, config file
\* malformed, jira_project_key or status_mapping empty after the merge, no
\* issue label in a non-empty allow-list) the handler raises nothing, posts
\* one diagnostic comment on the issue and returns "ok".
UserFixable(w) ==
    \/ config[w].kind \in {"missing", "scanner_error", "parser_error"}
    \/ HasSettings(w) /\ ~ValidSettings(w)
    \/ ValidSettings(w) /\ NoLabelAllowed(w)

C10_UserFixableDiagnosed ==
    \A w \in Workers :
        (UserFixable(w) /\ NoCallFailed(w)) =>
            /\ pc[w] = "done" /\ outcome[w] = "ok"
            /\ NCalls(w, "create_comment") = 1

\* C11: every user-fixable path ends the handler: with the config file
\* missing or malformed, jira_project_key or status_mapping empty, or the
\* label gate failed, the handler has stopped and has made no call to the
\* ticket system (search_issues, project_components, create_issue,
\* transition_issue, update, add_comment), and the step that detects the
\* condition leaves the ticket store as it was.
TicketSystemOps ==
    {"search_issues", "project_components", "create_issue", "transition_issue",
     "update", "add_comment"}

C11_UserFixableTerminal ==
    /\ [](\A w \in Workers :
            UserFixable(w) =>
                /\ pc[w] \in {"done", "failed"}
                /\ \A i \in 1..Len(calls[w]) : calls[w][i].op \notin TicketSystemOps)
    /\ [][\A w \in Workers :
            (pc[w] = "load_settings" /\ pc'[w] \in {"done", "failed"}) =>
                tickets' = tickets]_vars

\* a ticket exists, and a later event of the issue meets an empty project key
C11_Witness ==
    /\ tickets # <<>>
    /\ \E w \in Workers :
          /\ pc[w] = "done"
          /\ HasSettings(w) /\ ~ValidSettings(w)
          /\ NCalls(w, "create_comment") = 1

\* C12: an event sent by the bot account makes no call at all, neither to
\* the ticket system nor to the issue tracker, whatever its action, labels
\* and the repo-local config: the handler stops at the sender test. This
\* holds for the `created` event of the bot's own ticket-link comment, so no
\* event caused by the bot ever produces another external call.
C12_NoFeedbackLoop ==
    \A w \in Workers :
        (pc[w] # "idle" /\ payload[w].sender = BOT_NAME) =>
            /\ calls[w] = <<>>
            /\ pc[w] \in {"classify", "done", "failed"}
            /\ pc[w] = "failed" => ~payload[w].has_action
            /\ config[w] = NoConfig

\* the ticket-link comment was posted, and its `created` event came back
C12_Witness ==
    /\ issueComments.ticket_link = 1
    /\ \E w \in Workers :
          /\ pc[w] = "done" /\ outcome[w] = "bot_ignored"
          /\ payload[w].action = "created" /\ payload[w].has_comment
          /\ payload[w].sender = BOT_NAME

\* C13: the handler posts the ticket-link comment exactly when this event
\* created a new ticket and add_gh_comment is true, and the comment carries
\* the permalink of that ticket; an event that finds an existing ticket
\* posts no link comment, so events handled one after another leave at most
\* one link comment on the issue.
LinkCalls(w) ==
    SelectSeq(calls[w], LAMBDA c : c.op = "create_comment" /\ c.arg = "ticket_link")

CreatedTicket(w) ==
    NCalls(w, "create_issue") = 1 /\ CallsOf(w, "create_issue")[1].ok

C16_FirstSeenCreates ==
    \A w \in Workers :
        /\ pc[w] = "sync_comment" => existing_issues[w] # <<>>
        /\ ( /\ Searched(w) /\ Found(w) = <<>>
             /\ payload[w].action # "closed"
             /\ pc[w] \in {"sync_comment", "done"} ) =>
               /\ CreatedTicket(w)
               /\ CallsOf(w, "create_issue")[1].arg = BuildIssueDict(settings[w], payload[w])
               /\ NCalls(w, "transition_issue") = 0
               /\ NCalls(w, "update") = 0
               /\ \A i \in 1..Len(CallsOf(w, "add_comment")) :
                      CallsOf(w, "add_comment")[i].ticket = CallsOf(w, "create_issue")[1].ticket
               /\ ( /\ pc[w] = "done"
                    /\ payload[w].action = "created"
                    /\ Truthy(Item(settings[w], "sync_comments")) ) =>
                      NCalls(w, "add_comment") = 1

\* a comment is the first event seen for the issue: the ticket is created
\* and the comment is added to it
C16_Witness ==
    \E w \in Workers :
        /\ pc[w] = "done"
        /\ Searched(w) /\ Found(w) = <<>>
        /\ payload[w].action = "created"
        /\ CreatedTicket(w)
        /\ NCalls(w, "add_comment") = 1
        /\ tickets[CallsOf(w, "create_issue")[1].ticket].comments = 1

\* C17 as stated: with a valid configuration and a ticket that existed
\* before the event, once a `closed` or `reopened` event has been handled
\* the ticket's status is status_mapping.closed or status_mapping.opened
\* respectively.
C17_StatusFollowsLast ==
    \A w \in Workers :
        ( /\ pc[w] = "done"
          /\ inputs.mode = "fixed"
          /\ ValidSettings(w)
          /\ payload[w].action \in {"closed", "reopened"}
          /\ NCalls(w, "create_issue") = 0 ) =>
            \A i \in TicketsWithMarker :
                tickets[i].status =
                    Item(Item(settings[w], "status_mapping"),
                         IF payload[w].action = "closed" THEN "closed" ELSE "opened")[2]

\* C17, amended: a `closed` or `reopened` event that passes the filters,
\* finds a ticket and whose calls return leaves the first ticket found in
\* status_mapping.closed or status_mapping.opened respectively; and the
\* status of a ticket changes only in such a step, so with events handled
\* one after another the status is the one of the last such event, and an
\* event with another action never changes it.
C17_StatusFollowsLastHandled ==
    /\ [](\A w \in Workers :
            ( /\ Searched(w) /\ Found(w) # <<>>
              /\ payload[w].action \in {"closed", "reopened"}
              /\ pc[w] \in {"sync_comment", "done"} ) =>
                tickets[Found(w)[1]].status =
                    Item(Item(settings[w], "status_mapping"),
                         IF payload[w].action = "closed" THEN "closed" ELSE "opened")[2])
    /\ [][\A i \in 1..Len(tickets) :
            tickets'[i].status # tickets[i].status =>
                \E w \in Workers :
                    /\ pc[w] = "reconcile" /\ pc'[w] # pc[w]
                    /\ payload[w].action \in {"closed", "reopened"}
                    /\ existing_issues[w] # <<>>
                    /\ existing_issues[w][1].id = i
                    /\ tickets'[i].status =
                          Item(Item(settings[w], "status_mapping"),
                               IF payload[w].action = "closed" THEN "closed" ELSE "opened")[2]]_vars

\* the ticket was created by an earlier event and a `reopened` event moved it
\* to status_mapping.opened
C17_Witness ==
    \E w \in Workers :
        /\ pc[w] = "done"
        /\ payload[w].action = "reopened"
        /\ Searched(w) /\ Found(w) # <<>>
        /\ tickets[Found(w)[1]].status = "To Do"

\* C19: an external call that fails is the last call of its event and the
\* event ends in failure: after a failed search_issues, project_components,
\* create_issue, transition_issue, update, add_comment or create_comment
\* the handler makes no further call and returns nothing; and create_issue,
\* transition_issue, update and add_comment are each attempted at most once
\* per event.
C19_FailuresFatal ==
    \A w \in Workers :
        /\ \A i \in 1..Len(calls[w]) :
              ~calls[w][i].ok =>
                  /\ i = Len(calls[w])
                  /\ pc[w] = "failed"
                  /\ outcome[w] = "error"
        /\ \A op \in {"create_issue", "transition_issue", "update", "add_comment"} :
              NCalls(w, op) <= 1

\* the ticket was created, then add_comment failed: the event ends in
\* failure with the ticket in the store and no comment on it
C19_Witness ==
    \E w \in Workers :
        /\ pc[w] = "failed"
        /\ CreatedTicket(w)
        /\ NCalls(w, "add_comment") = 1
        /\ ~CallsOf(w, "add_comment")[1].ok
        /\ tickets[CallsOf(w, "create_issue")[1].ticket].comments = 0

\* C20: a payload that lacks the "action" key or the "issue" key is
\* ignored: whatever its action value, the handler raises nothing, returns
\* a neutral outcome, and makes no ticket-system call and no comment on the
\* issue.
C20_PartialPayloadIgnored ==
    \A w \in Workers :
        (pc[w] # "idle" /\ ~(payload[w].has_action /\ payload[w].has_issue)) =>
            /\ pc[w] # "failed"
            /\ outcome[w] # "error"
            /\ \A i \in 1..Len(calls[w]) :
                  calls[w][i].op \notin TicketSystemOps \cup {"create_comment"}

\* C14: nothing stands between the search and the create: a handler whose
\* search returned no ticket, and whose event is no `closed`, adds a ticket
\* when it goes on, whatever the store holds by then. With two workers
\* handling deliveries for the same issue at the same time, both can search
\* before either creates, and the store ends with two tickets that carry the
\* same marker.
C14_CreateAfterStaleSearch ==
    [][\A w \in Workers :
          ( /\ pc[w] = "reconcile"
            /\ existing_issues[w] = <<>>
            /\ payload[w].action # "closed"
            /\ pc'[w] \in {"sync_comment", "done"} ) =>
              /\ Len(tickets') = Len(tickets) + 1
              /\ tickets'[Len(tickets')].description.gh_issue_url = IssueUrl]_vars

\* two workers searched, found nothing, and each created a ticket
C14_Witness ==
    /\ Cardinality(TicketsWithMarker) = 2
    /\ \E v, w \in Workers :
          /\ v # w
          /\ Searched(v) /\ Found(v) = <<>> /\ CreatedTicket(v)
          /\ Searched(w) /\ Found(w) = <<>> /\ CreatedTicket(w)
          /\ CallsOf(v, "create_issue")[1].ticket # CallsOf(w, "create_issue")[1].ticket

\* C15: when the search returns two or more tickets, the event's transition,
\* update and add_comment calls all go to the first ticket returned, no
\* ticket is created, and the step changes no other ticket of the store.
C15_FirstMatchCanonical ==
    /\ [](\A w \in Workers :
            (Searched(w) /\ Len(Found(w)) >= 2) =>
                /\ NCalls(w, "create_issue") = 0
                /\ \A i \in 1..Len(calls[w]) :
                      calls[w][i].op \in {"transition_issue", "update", "add_comment"} =>
                          calls[w][i].ticket = Found(w)[1])
    /\ [][\A w \in Workers :
            ( /\ pc[w] \in {"reconcile", "sync_comment"}
              /\ pc'[w] # pc[w]
              /\ Len(existing_issues[w]) >= 2 ) =>
                /\ Len(tickets') = Len(tickets)
                /\ \A i \in 1..Len(tickets) :
                      i # existing_issues[w][1].id => tickets'[i] = tickets[i]]_vars

\* the race left two tickets; a later `closed` event moved the first one
\* and left the second as it was
C15_Witness ==
    \E w \in Workers :
        /\ pc[w] = "done"
        /\ Searched(w) /\ Len(Found(w)) = 2
        /\ NCalls(w, "transition_issue") = 1
        /\ tickets[Found(w)[1]].status = "Done"
        /\ tickets[Found(w)[2]].status = JiraInitialStatus

\* C18: DEFAULT_SETTINGS is never mutated: after merge_dicts(settings,
\* DEFAULT_SETTINGS), once, again, or for a later event's document, the
\* DEFAULT_SETTINGS object stands for the mapping it stood for at start,
\* also when the merged view shares its sub-mappings by reference; and the
\* merged settings of a later event are what its own document and the
\* original defaults give, whatever the earlier event merged.
C18_DefaultsNeverMutated ==
    (mPhase # "off") =>
        /\ Deref(mHeap, DefaultsRoot) = mB
        /\ mPhase \in {"once", "twice"} => Deref(mHeap, SettingsRoot) = mOut
        /\ mPhase = "later" => mOut = merge_dicts(mA, mB)

\* the first event's document lacked a sub-mapping and its merged view
\* shares the default's object; a later event then merged its own document,
\* which holds a mapping at the same key
C18_Witness ==
    /\ mPhase = "later"
    /\ \E k \in Keys(mA) \cap Keys(mB) :
          /\ IsDict(Item(mA, k)) /\ IsDict(Item(mB, k))
          /\ Keys(Item(mB, k)) \ Keys(Item(mA, k)) # {}
          /\ k \in DOMAIN mHeap[SettingsRoot]
          /\ mHeap[SettingsRoot][k] = Ref(<<"DEFAULT_SETTINGS", <<k>>>>)

====
